---- MODULE Spec2Model ----
(***************************************************************************)
(* autoAnalyzeObject (src/src/auto-analyze.ts) as a state machine.         *)
(*                                                                         *)
(* One invocation of the async function is modelled.  A step is the code   *)
(* between two observable points: the start of the function, every         *)
(* "await callLLM(...)" (the call is outstanding), and the point right     *)
(* after the awaited value has been assigned to its result variable.       *)
(*                                                                         *)
(* Text is a sequence of tokens.  F is a run of three backticks, "sql" and *)
(* "typescript" are the fence tags (also plain words elsewhere), "_" is a  *)
(* whitespace character, "a" is any other text.  null is the one-token     *)
(* sequence NULL, which is no text.                                        *)
(***************************************************************************)
EXTENDS Integers, Sequences, FiniteSets, TLC

\* Longest DDL response the model's LLM produces, in tokens.
MaxLen == 4

F == "FENCE"
NULL == <<"null">>
THROW == <<"rejected">>
PENDING == <<"pending">>
NoError == "none"

Alphabet == {F, "sql", "a", "_"}

Strings(n) == UNION {[1..k -> Alphabet] : k \in 0..n}

\* ---------------------------------------------------------------------
\* Inputs and environment
\* ---------------------------------------------------------------------

\* existingTypeSpec?: string  (undefined, '' or a typespec)
ExistingTypeSpecs == {NULL, <<>>, <<"a">>}

\* markdownSaveLocation?: string (undefined, '' or a path)
MarkdownSaveLocations == {NULL, <<>>, <<"/reports">>, <<"/missing">>, <<"/readonly">>}

\* The file system the invocation runs against.
ExistingPaths == {<<"/reports">>, <<"/readonly">>}
WritablePaths == {<<"/reports">>}

\* What a callLLM promise can settle with: a rejection, null, or text.
ProseResponses == {THROW, NULL, <<>>, <<"a">>}
DDLResponses == {THROW, NULL} \cup Strings(MaxLen)
TypescriptResponses ==
    {THROW, NULL, <<>>, <<"a">>, <<F, "typescript", F>>,
     <<F, "typescript", "a", F>>, <<"a", F, "typescript", "_", "a", F, "a">>}

\* ---------------------------------------------------------------------
\* JavaScript helpers
\* ---------------------------------------------------------------------

\* !x for x : string | null
FalsyNullOnly(x) == x = NULL
Falsy(x) == x = NULL \/ x = <<>>

Min(S) == CHOOSE m \in S : \A n \in S : m <= n

\* s.match(/FENCE tag([\s\S]*?)FENCE/g): the array of the non-overlapping matches,
\* leftmost first, each one lazily closed by the nearest later fence; the
\* empty array stands for null.
RECURSIVE Match(_, _)
Match(s, tag) ==
    LET opens == {i \in 1..(Len(s) - 1) :
                     /\ s[i] = F
                     /\ s[i + 1] = tag
                     /\ \E j \in (i + 2)..Len(s) : s[j] = F}
    IN IF opens = {}
       THEN <<>>
       ELSE LET i == Min(opens)
                j == Min({k \in (i + 2)..Len(s) : s[k] = F})
            IN <<SubSeq(s, i, j)>> \o Match(SubSeq(s, j + 1, Len(s)), tag)

\* s.replace(/pat/g, '')
RECURSIVE ReplaceAll(_, _)
ReplaceAll(s, pat) ==
    IF Len(s) < Len(pat)
    THEN s
    ELSE IF SubSeq(s, 1, Len(pat)) = pat
         THEN ReplaceAll(SubSeq(s, Len(pat) + 1, Len(s)), pat)
         ELSE <<Head(s)>> \o ReplaceAll(Tail(s), pat)

\* s.trim()
RECURSIVE Trim(_)
Trim(s) ==
    IF s = <<>> THEN s
    ELSE IF Head(s) = "_" THEN Trim(Tail(s))
    ELSE IF s[Len(s)] = "_" THEN Trim(SubSeq(s, 1, Len(s) - 1))
    ELSE s

\* const extracted = x.match(...); if (extracted?.length) x = extracted[0]
\*   .replace(/FENCE tag/g, '').replace(/FENCE/g, '').trim();
StripFenceOrEmpty(raw, tag) ==
    LET extracted == Match(raw, tag)
    IN IF Len(extracted) > 0
       THEN Trim(ReplaceAll(ReplaceAll(extracted[1], <<F, tag>>), <<F>>))
       ELSE <<>>
StripFence(raw, tag) ==
    LET extracted == Match(raw, tag)
    IN IF Len(extracted) > 0
       THEN Trim(ReplaceAll(ReplaceAll(extracted[1], <<F, tag>>), <<F>>))
       ELSE raw

\* ---------------------------------------------------------------------
\* Prompts and the report template
\* ---------------------------------------------------------------------

InputObjJSON == "{json}"

GenerateTypespecSystem == <<"EXAMPLE_JSON:", F, InputObjJSON, F>>
GenerateTypespecUser == <<"Outline a typespec">>
TableStructureUser == <<"GUIDELINES: talk me through">>
GenerateDDLUser == <<"Please generate the valid Sqlite DDL">>
StructureDDLSystem(d) == <<"DDL:">> \o d
StructureDDLUser == <<"Convert theDDL into a structure">>
ObjectToRowSystem(t, d) ==
    <<"TYPESPEC:", F, "typescript">> \o t \o <<F, "DDL:", F, "sql">> \o d \o <<F>>
ObjectToRowUser == <<"I need a typescript function called objectToRows">>

Msg(r, c) == [role |-> r, content |-> c]

\* messages.push({role: 'assistant', ...}); messages.push({role: 'user', ...})
PushTurnNoUser(msgs, answer, question) == Append(msgs, Msg("assistant", answer))
PushTurn(msgs, answer, question) ==
    Append(Append(msgs, Msg("assistant", answer)), Msg("user", question))

\* A fresh two-message conversation: [{system}, {user}]
FreshConversation(sys, usr) == <<Msg("system", sys), Msg("user", usr)>>

\* MARKDOWN_TEMPLATE: a section is rendered only for a truthy argument.
Section(title, tag, body) ==
    IF Falsy(body) THEN <<>> ELSE <<title, F, tag>> \o body \o <<F>>
MarkdownTemplate(t, ddlExplanation, d, sd, o) ==
    <<"# Automated Object Analysis", "# Typespec", F, "typescript">> \o t \o <<F>>
    \o Section("# SQL Tables", "sql", d)
    \o Section("# Structured DDL", "typescript", sd)
    \o Section("# Object to Rows function", "typescript", o)
    \o <<"## Input Object", F, "json", InputObjJSON, F>>
    \o (IF Falsy(ddlExplanation) THEN <<>>
        ELSE <<"## Reasoning for table structure">> \o ddlExplanation)

\* fs.existsSync(p)
ExistsSync(p) == p \in ExistingPaths

\* fs.writeFileSync(file, data) on a path whose directory exists
WriteFileSyncLost(fs, dir, data) == fs
WriteFileSync(fs, dir, data) ==
    Append(fs, [dir |-> dir, name |-> "analysis_<ISO time>.md", data |-> data])

\* callLLM(msgs): the call is recorded with the messages it was given; its
\* response is filled in when the promise settles.
CallLLMTwice(log, stage, msgs) ==
    log \o << [stage |-> stage, messages |-> msgs, response |-> PENDING],
              [stage |-> stage, messages |-> msgs, response |-> PENDING] >>
CallLLM(log, stage, msgs) ==
    Append(log, [stage |-> stage, messages |-> msgs, response |-> PENDING])

\* The promise of the outstanding call settles with r.
Settle(log, r) == [log EXCEPT ![Len(log)].response = r]

\* catch (err) { console.error(...) }: the error still pending after the
\* catch block (none: the block does not rethrow).
CatchRethrows(err) == err
Catch(err) == NoError

\* ---------------------------------------------------------------------
\* State
\* ---------------------------------------------------------------------

VARIABLES
    existingTypeSpec,      \* argument
    markdownSaveLocation,  \* argument
    pc,                    \* where the invocation is
    typespec, tableStructure, ddl, structuredDDL, objectToRowFunc,
    messages,              \* the main conversation
    calls,                 \* every callLLM call made, in order
    consoleErrors,         \* what the catch block has logged
    outcome,               \* "running", "returned" or "threw"
    thrown,                \* the error the invocation ended with
    returned,              \* the object the invocation returned
    files                  \* files written by the invocation

vars == <<existingTypeSpec, markdownSaveLocation, pc, typespec, tableStructure,
          ddl, structuredDDL, objectToRowFunc, messages, calls, consoleErrors,
          outcome, thrown, returned, files>>

artifacts == <<typespec, tableStructure, ddl, structuredDDL, objectToRowFunc>>
ending == <<consoleErrors, outcome, thrown, returned, files>>
inputs == <<existingTypeSpec, markdownSaveLocation>>

Init ==
    /\ existingTypeSpec \in ExistingTypeSpecs
    /\ markdownSaveLocation \in MarkdownSaveLocations
    /\ pc = "start"
    /\ typespec = NULL
    /\ tableStructure = NULL
    /\ ddl = NULL
    /\ structuredDDL = NULL
    /\ objectToRowFunc = NULL
    /\ messages = <<>>
    /\ calls = <<>>
    /\ consoleErrors = <<>>
    /\ outcome = "running"
    /\ thrown = NoError
    /\ returned = NULL
    /\ files = <<>>

\* ---------------------------------------------------------------------
\* The end of an invocation
\* ---------------------------------------------------------------------

\* The invocation rejects with err.
Throw(err) ==
    /\ outcome' = "threw"
    /\ thrown' = err
    /\ returned' = NULL
    /\ pc' = "done"

\* Leaving the try block with error err (NoError: the chain completed) and
\* the result variables t, ts, d, sd, o: the catch block, the finally block
\* and the return statement.
Finish(err, t, ts, d, sd, o) ==
    /\ consoleErrors' = IF err = NoError THEN consoleErrors
                        ELSE Append(consoleErrors, err)
    /\ IF ~Falsy(markdownSaveLocation) /\ ~ExistsSync(markdownSaveLocation)
       THEN /\ files' = files
            /\ Throw("Markdown save location does not exist!")
       ELSE IF ~Falsy(markdownSaveLocation)
               /\ markdownSaveLocation \notin WritablePaths
       THEN /\ files' = files
            /\ Throw("writeFileSync failed")
       ELSE /\ files' = IF Falsy(markdownSaveLocation) THEN files
                        ELSE WriteFileSync(files, markdownSaveLocation,
                                           MarkdownTemplate(t, ts, d, sd, o))
            /\ IF Catch(err) # NoError
               THEN Throw(Catch(err))
               ELSE /\ outcome' = "returned"
                    /\ thrown' = NoError
                    /\ returned' = [typespec |-> t, tableStructure |-> ts,
                                    ddl |-> d, structuredDDL |-> sd,
                                    objectToRowFunc |-> o]
                    /\ pc' = "done"

\* ---------------------------------------------------------------------
\* The steps of autoAnalyzeObject
\* ---------------------------------------------------------------------

\* Entry up to the first await: the result variables, the two typespec
\* messages, the typespec guard, then the table-structure turn and its call.
\* Inside the guard nothing assigns typespec before it is tested again, so
\* the guard always throws and the typescript fence extraction after it is
\* never reached; the throw is outside the try block.
Start ==
    /\ pc = "start"
    /\ typespec' = existingTypeSpec
    /\ IF Falsy(existingTypeSpec)
       THEN /\ messages' = FreshConversation(GenerateTypespecSystem,
                                             GenerateTypespecUser)
            /\ consoleErrors' = consoleErrors
            /\ files' = files
            /\ calls' = calls
            /\ Throw("No response from LLM while generating typespec!")
       ELSE /\ messages' = PushTurn(FreshConversation(GenerateTypespecSystem,
                                                      GenerateTypespecUser),
                                    existingTypeSpec, TableStructureUser)
            /\ calls' = CallLLM(calls, "tableStructure", messages')
            /\ pc' = "awaitTableStructure"
            /\ UNCHANGED ending
    /\ UNCHANGED <<inputs, tableStructure, ddl, structuredDDL, objectToRowFunc>>

\* tableStructure = await callLLM(messages)
TableStructureReturns ==
    /\ pc = "awaitTableStructure"
    /\ \E r \in ProseResponses :
        /\ calls' = Settle(calls, r)
        /\ IF r = THROW
           THEN /\ Finish("callLLM rejected", typespec, tableStructure, ddl,
                          structuredDDL, objectToRowFunc)
                /\ UNCHANGED tableStructure
           ELSE /\ tableStructure' = r
                /\ pc' = "gotTableStructure"
                /\ UNCHANGED ending
    /\ UNCHANGED <<inputs, typespec, ddl, structuredDDL, objectToRowFunc, messages>>

\* The empty-response check, the DDL turn and its call.
TableStructureContinue ==
    /\ pc = "gotTableStructure"
    /\ IF Falsy(tableStructure)
       THEN /\ Finish("No response from LLM while generating table structure!",
                      typespec, tableStructure, ddl, structuredDDL,
                      objectToRowFunc)
            /\ UNCHANGED <<messages, calls>>
       ELSE /\ messages' = PushTurn(messages, tableStructure, GenerateDDLUser)
            /\ calls' = CallLLM(calls, "ddl", messages')
            /\ pc' = "awaitDDL"
            /\ UNCHANGED ending
    /\ UNCHANGED <<inputs, artifacts>>

\* ddl = await callLLM(messages)
DDLReturns ==
    /\ pc = "awaitDDL"
    /\ \E r \in DDLResponses :
        /\ calls' = Settle(calls, r)
        /\ IF r = THROW
           THEN /\ Finish("callLLM rejected", typespec, tableStructure, ddl,
                          structuredDDL, objectToRowFunc)
                /\ UNCHANGED ddl
           ELSE /\ ddl' = r
                /\ pc' = "gotDDL"
                /\ UNCHANGED ending
    /\ UNCHANGED <<inputs, typespec, tableStructure, structuredDDL,
                   objectToRowFunc, messages>>

\* The empty-response check, the sql fence extraction, structuredDDLMessages
\* and its call.
DDLContinue ==
    /\ pc = "gotDDL"
    /\ IF Falsy(ddl)
       THEN /\ Finish("No response from LLM while generating DDL!", typespec,
                      tableStructure, ddl, structuredDDL, objectToRowFunc)
            /\ UNCHANGED <<ddl, calls>>
       ELSE /\ ddl' = StripFence(ddl, "sql")
            /\ calls' = CallLLM(calls, "structuredDDL",
                                FreshConversation(StructureDDLSystem(ddl'),
                                                  StructureDDLUser))
            /\ pc' = "awaitStructuredDDL"
            /\ UNCHANGED ending
    /\ UNCHANGED <<inputs, typespec, tableStructure, structuredDDL,
                   objectToRowFunc, messages>>

\* structuredDDL = await callLLM(structuredDDLMessages)
StructuredDDLReturns ==
    /\ pc = "awaitStructuredDDL"
    /\ \E r \in TypescriptResponses :
        /\ calls' = Settle(calls, r)
        /\ IF r = THROW
           THEN /\ Finish("callLLM rejected", typespec, tableStructure, ddl,
                          structuredDDL, objectToRowFunc)
                /\ UNCHANGED structuredDDL
           ELSE /\ structuredDDL' = r
                /\ pc' = "gotStructuredDDL"
                /\ UNCHANGED ending
    /\ UNCHANGED <<inputs, typespec, tableStructure, ddl, objectToRowFunc,
                   messages>>

\* The empty-response check, the typescript fence extraction,
\* objectToRowMessages and its call.
StructuredDDLContinue ==
    /\ pc = "gotStructuredDDL"
    /\ IF Falsy(structuredDDL)
       THEN /\ Finish("No response from LLM while structuring DDL!", typespec,
                      tableStructure, ddl, structuredDDL, objectToRowFunc)
            /\ UNCHANGED <<structuredDDL, calls>>
       ELSE /\ structuredDDL' = StripFence(structuredDDL, "typescript")
            /\ calls' = CallLLM(calls, "objectToRow",
                                FreshConversation(ObjectToRowSystem(typespec, ddl),
                                                  ObjectToRowUser))
            /\ pc' = "awaitObjectToRow"
            /\ UNCHANGED ending
    /\ UNCHANGED <<inputs, typespec, tableStructure, ddl, objectToRowFunc,
                   messages>>

\* objectToRowFunc = await callLLM(objectToRowMessages)
ObjectToRowReturns ==
    /\ pc = "awaitObjectToRow"
    /\ \E r \in TypescriptResponses :
        /\ calls' = Settle(calls, r)
        /\ IF r = THROW
           THEN /\ Finish("callLLM rejected", typespec, tableStructure, ddl,
                          structuredDDL, objectToRowFunc)
                /\ UNCHANGED objectToRowFunc
           ELSE /\ objectToRowFunc' = r
                /\ pc' = "gotObjectToRow"
                /\ UNCHANGED ending
    /\ UNCHANGED <<inputs, typespec, tableStructure, ddl, structuredDDL,
                   messages>>

\* The empty-response check, the typescript fence extraction, then the end
\* of the try block: finally and return.
ObjectToRowContinue ==
    /\ pc = "gotObjectToRow"
    /\ IF Falsy(objectToRowFunc)
       THEN /\ Finish("No response from LLM while generating objectToRow!",
                      typespec, tableStructure, ddl, structuredDDL,
                      objectToRowFunc)
            /\ UNCHANGED objectToRowFunc
       ELSE /\ objectToRowFunc' = StripFence(objectToRowFunc, "typescript")
            /\ Finish(NoError, typespec, tableStructure, ddl, structuredDDL,
                      objectToRowFunc')
    /\ UNCHANGED <<inputs, typespec, tableStructure, ddl, structuredDDL,
                   messages, calls>>

Next ==
    \/ Start
    \/ TableStructureReturns
    \/ TableStructureContinue
    \/ DDLReturns
    \/ DDLContinue
    \/ StructuredDDLReturns
    \/ StructuredDDLContinue
    \/ ObjectToRowReturns
    \/ ObjectToRowContinue

Spec == Init /\ [][Next]_vars

\* ---------------------------------------------------------------------
\* Vocabulary of the properties
\* ---------------------------------------------------------------------

StageOrder == <<"tableStructure", "ddl", "structuredDDL", "objectToRow">>

Done == pc = "done"

\* A callLLM result that carries no text.
EmptyResponse(r) == r = NULL \/ Len(r) = 0

\* A callLLM call that failed: it rejected or carried no text.
FailedCall(c) == c.response = THROW \/ EmptyResponse(c.response)

SettledCall(c) == c.response # PENDING

AnyCallFailed == \E i \in 1..Len(calls) : FailedCall(calls[i])

AllCallsSucceeded ==
    \A i \in 1..Len(calls) : SettledCall(calls[i]) /\ ~FailedCall(calls[i])

CallsFor(stage) == Cardinality({i \in 1..Len(calls) : calls[i].stage = stage})

\* A save location was passed (a non-empty path).
LocationSupplied == markdownSaveLocation # NULL /\ markdownSaveLocation # <<>>

\* The report can be written without an error.
SaveCannotFail == ~LocationSupplied \/ markdownSaveLocation \in WritablePaths

\* The k-th artifact of the chain in a returned object.
ArtifactOf(rec, k) ==
    CASE k = 1 -> rec.tableStructure
      [] k = 2 -> rec.ddl
      [] k = 3 -> rec.structuredDDL
      [] k = 4 -> rec.objectToRowFunc

\* r holds a complete fenced block tagged tag.
HasFencedBlock(r, tag) ==
    \E i \in 1..Len(r) : \E j \in 1..Len(r) :
        /\ j >= i + 2
        /\ r[i] = F
        /\ r[i + 1] = tag
        /\ r[j] = F

\* x is the content of the first block tagged tag of r, without the
\* whitespace around it.
IsFirstBlockContent(x, r, tag) ==
    \E i \in 1..Len(r) : \E j \in 1..Len(r) :
        /\ j >= i + 2
        /\ r[i] = F /\ r[i + 1] = tag /\ r[j] = F
        /\ \A k \in 1..(i - 1) : ~(r[k] = F /\ r[k + 1] = tag)
        /\ \A k \in (i + 2)..(j - 1) : r[k] # F
        /\ \E a \in (i + 2)..j : \E b \in (i + 1)..(j - 1) :
              /\ x = SubSeq(r, a, b)
              /\ \A k \in ((i + 2)..(a - 1)) \cup ((b + 1)..(j - 1)) : r[k] = "_"
              /\ x # <<>> => (x[1] # "_" /\ x[Len(x)] # "_")

\* ---------------------------------------------------------------------
\* C1
\* ---------------------------------------------------------------------

\* C1: called without existingTypeSpec, the function asks the LLM for the
\* typespec (system message with the example JSON, user message asking for a
\* typespec) and, when no callLLM fails, completes normally with a non-null
\* typespec.
C1_InfersTypespec ==
    (Done /\ existingTypeSpec = NULL /\ AllCallsSucceeded /\ SaveCannotFail)
        => /\ outcome = "returned"
           /\ returned.typespec # NULL
           /\ \E i \in 1..Len(calls) :
                 calls[i].messages = FreshConversation(GenerateTypespecSystem,
                                                       GenerateTypespecUser)

\* ---------------------------------------------------------------------
\* C2
\* ---------------------------------------------------------------------

\* C2 as stated: a supplied save location gets exactly one report file by the
\* end of the invocation, however the chain ended; no location, no file.
C2_OneReportWheneverSupplied ==
    Done => Len(files) = (IF LocationSupplied THEN 1 ELSE 0)

\* C2 (amended): at most one report is written, and only in the final step;
\* the invocation ends with exactly one report, in the supplied location,
\* exactly when the location is supplied, exists and is writable and the
\* typespec guard let the prompt chain start (whether the chain then
\* completed or stopped on an LLM failure); otherwise no file is written.
C2_ReportWritten ==
    /\ Len(files) <= 1
    /\ ~Done => files = <<>>
    /\ Done => /\ Len(files) = 1 <=> /\ LocationSupplied
                                     /\ markdownSaveLocation \in WritablePaths
                                     /\ Len(calls) >= 1
               /\ \A i \in 1..Len(files) : files[i].dir = markdownSaveLocation

\* A report was written although the chain stopped early on a failed call.
C2_Witness == Done /\ Len(files) = 1 /\ AnyCallFailed /\ Len(calls) = 2

\* ---------------------------------------------------------------------
\* C3
\* ---------------------------------------------------------------------

\* C3: a failed callLLM (rejection or empty response) is a hard stop: it is
\* the last call of the invocation, and no two calls of an invocation are
\* given the same messages.
C3_HardStop ==
    /\ \A i \in 1..Len(calls) : FailedCall(calls[i]) => i = Len(calls)
    /\ \A i \in 1..Len(calls) : \A j \in 1..Len(calls) :
          i # j => calls[i].messages # calls[j].messages

\* The invocation ended after an empty response to its second call.
C3_Witness ==
    Done /\ Len(calls) = 2 /\ calls[2].response = <<>> /\ ~FailedCall(calls[1])

\* ---------------------------------------------------------------------
\* C4
\* ---------------------------------------------------------------------

\* C4 as stated: a failed callLLM makes the invocation fail, and the
\* invocation returns normally only when every stage succeeded.
C4_FailurePropagated ==
    Done => /\ AnyCallFailed => outcome = "threw"
            /\ outcome = "returned" => (Len(calls) = 4 /\ AllCallsSucceeded)

\* C4 (amended): a failed callLLM is caught and logged, never propagated: the
\* invocation never ends with the LLM failure as its error, and unless
\* writing the report fails it returns normally, with the failed stage's
\* artifact empty (null or '') and every later artifact null.
C4_FailureLoggedNotPropagated ==
    (Done /\ AnyCallFailed) =>
        /\ Len(consoleErrors) = 1
        /\ thrown \in {NoError, "Markdown save location does not exist!",
                       "writeFileSync failed"}
        /\ SaveCannotFail =>
              /\ outcome = "returned"
              /\ EmptyResponse(ArtifactOf(returned, Len(calls)))
              /\ \A k \in (Len(calls) + 1)..4 : ArtifactOf(returned, k) = NULL

\* The invocation returned normally although its DDL call was rejected.
C4_Witness ==
    Done /\ outcome = "returned" /\ Len(calls) = 2 /\ calls[2].response = THROW

\* ---------------------------------------------------------------------
\* C5
\* ---------------------------------------------------------------------

\* C5: the calls are a prefix of table-structure, DDL, structured-DDL,
\* object-to-row (so at most four); only the latest call can be outstanding;
\* with existingTypeSpec supplied and no failed call the invocation ends
\* after exactly four calls.
C5_FourChainedCalls ==
    /\ Len(calls) <= 4
    /\ \A i \in 1..Len(calls) : calls[i].stage = StageOrder[i]
    /\ \A i \in 1..Len(calls) : ~SettledCall(calls[i]) => i = Len(calls)
    /\ (Done /\ ~EmptyResponse(existingTypeSpec) /\ AllCallsSucceeded)
          => Len(calls) = 4

\* An invocation ended with all four calls answered with text.
C5_Witness ==
    Done /\ Len(calls) = 4 /\ AllCallsSucceeded /\ ~EmptyResponse(existingTypeSpec)

\* ---------------------------------------------------------------------
\* C6
\* ---------------------------------------------------------------------

\* C6 as stated: a DDL response without a sql fenced block makes extraction
\* fail; the raw response is not passed to a later step and not returned as
\* the DDL.
C6_NoFenceIsFailure ==
    \A i \in 1..Len(calls) :
        (/\ calls[i].stage = "ddl"
         /\ SettledCall(calls[i])
         /\ ~FailedCall(calls[i])
         /\ ~HasFencedBlock(calls[i].response, "sql"))
        => /\ CallsFor("structuredDDL") = 0
           /\ ddl # calls[i].response \/ pc = "gotDDL"
           /\ outcome = "returned" => returned.ddl # calls[i].response

\* C6 (amended): a DDL response without a complete sql fenced block is no
\* failure: the raw response is adopted verbatim as the DDL, given to the
\* structured-DDL step, and returned; a response with such a block yields the
\* content of its first block, without fences and surrounding whitespace.
C6_RawAdoptedWithoutFence ==
    CallsFor("structuredDDL") = 1 =>
        LET raw == calls[2].response
        IN /\ calls[3].messages[1].content = <<"DDL:">> \o ddl
           /\ outcome = "returned" => returned.ddl = ddl
           /\ ~HasFencedBlock(raw, "sql") => ddl = raw
           /\ HasFencedBlock(raw, "sql") => IsFirstBlockContent(ddl, raw, "sql")

\* An unfenced DDL response was returned as the DDL after all four calls.
C6_Witness ==
    /\ Done /\ outcome = "returned" /\ Len(calls) = 4
    /\ ~HasFencedBlock(calls[2].response, "sql")
    /\ returned.ddl = calls[2].response
    /\ Len(returned.ddl) = MaxLen

\* ---------------------------------------------------------------------
\* C7
\* ---------------------------------------------------------------------

\* C7 as stated: a step whose every attempt fails is attempted
\* maxRetries + 1 times, for a retry budget maxRetries of 1 or 2.
C7_RetriedUpToBudget ==
    (Done /\ AnyCallFailed) =>
        \E maxRetries \in 1..2 :
            CallsFor(calls[Len(calls)].stage) = maxRetries + 1

\* C7 (amended): there is no retry loop and no retry budget: every step is
\* called at most once, and a step whose call fails has been called exactly
\* once when the invocation ends, with no later step called.
C7_NoRetryLoop ==
    /\ \A k \in 1..4 : CallsFor(StageOrder[k]) <= 1
    /\ (Done /\ AnyCallFailed) =>
          \E k \in 1..4 :
              /\ FailedCall(calls[Len(calls)])
              /\ calls[Len(calls)].stage = StageOrder[k]
              /\ CallsFor(StageOrder[k]) = 1
              /\ \A m \in (k + 1)..4 : CallsFor(StageOrder[m]) = 0

\* The invocation ended after its structured-DDL call was rejected.
C7_Witness ==
    Done /\ Len(calls) = 3 /\ calls[3].response = THROW /\ CallsFor("structuredDDL") = 1

\* ---------------------------------------------------------------------
\* C8
\* ---------------------------------------------------------------------

NonEmptyText(x) == x # NULL /\ x # <<>>

PrefixNonEmpty(t, ts, d, sd, o) ==
    /\ NonEmptyText(o) => NonEmptyText(sd)
    /\ NonEmptyText(sd) => NonEmptyText(d)
    /\ NonEmptyText(d) => NonEmptyText(ts)
    /\ NonEmptyText(ts) => NonEmptyText(t)

PrefixNonNull(t, ts, d, sd, o) ==
    /\ o # NULL => sd # NULL
    /\ sd # NULL => d # NULL
    /\ d # NULL => NonEmptyText(ts)
    /\ ts # NULL => NonEmptyText(t)

\* An artifact that holds text changes only in the step that strips its own
\* fence, from the raw response to the stripped text.
ChangedOnlyByOwnStripping ==
    /\ NonEmptyText(typespec) => typespec' = typespec
    /\ NonEmptyText(tableStructure) => tableStructure' = tableStructure
    /\ (NonEmptyText(ddl) /\ ddl' # ddl)
          => (pc = "gotDDL" /\ ddl = calls[2].response)
    /\ (NonEmptyText(structuredDDL) /\ structuredDDL' # structuredDDL)
          => (pc = "gotStructuredDDL" /\ structuredDDL = calls[3].response)
    /\ (NonEmptyText(objectToRowFunc) /\ objectToRowFunc' # objectToRowFunc)
          => (pc = "gotObjectToRow" /\ objectToRowFunc = calls[4].response)

\* C8 as stated: at every point and in the returned object, a non-empty
\* later artifact implies that every earlier artifact is non-empty, and an
\* artifact holding text is changed only by its own fence stripping.
C8_PrefixNonEmpty ==
    /\ [](/\ PrefixNonEmpty(typespec, tableStructure, ddl, structuredDDL,
                            objectToRowFunc)
          /\ outcome = "returned" =>
                PrefixNonEmpty(returned.typespec, returned.tableStructure,
                               returned.ddl, returned.structuredDDL,
                               returned.objectToRowFunc))
    /\ [][ChangedOnlyByOwnStripping]_vars

\* C8 (amended): at every point and in the returned object, a later artifact
\* that is not null implies that every earlier artifact is not null and came
\* from a non-empty typespec or LLM response (ddl and structuredDDL may
\* themselves be '' once an empty fenced block has been stripped); an
\* artifact holding text is changed only by its own fence stripping.
C8_PrefixNonNull ==
    /\ [](/\ PrefixNonNull(typespec, tableStructure, ddl, structuredDDL,
                           objectToRowFunc)
          /\ \A k \in 2..Len(calls) : ~FailedCall(calls[k - 1])
          /\ outcome = "returned" =>
                PrefixNonNull(returned.typespec, returned.tableStructure,
                              returned.ddl, returned.structuredDDL,
                              returned.objectToRowFunc))
    /\ [][ChangedOnlyByOwnStripping]_vars

\* An object was returned whose ddl is '' while its structuredDDL and
\* objectToRowFunc hold text.
C8_Witness ==
    /\ Done /\ outcome = "returned"
    /\ returned.ddl = <<>>
    /\ NonEmptyText(returned.structuredDDL)
    /\ NonEmptyText(returned.objectToRowFunc)

\* ---------------------------------------------------------------------
\* C9
\* ---------------------------------------------------------------------

WellFormedConversation(msgs) ==
    /\ Len(msgs) >= 2
    /\ msgs[1].role = "system"
    /\ \A i \in 2..Len(msgs) :
          msgs[i].role = (IF i % 2 = 0 THEN "user" ELSE "assistant")
    /\ msgs[Len(msgs)].role = "user"

IsPrefix(p, q) == Len(p) <= Len(q) /\ SubSeq(q, 1, Len(p)) = p

\* C9: every message sequence given to callLLM starts with its only system
\* message, then alternates user, assistant, ..., and ends with a user
\* message; the DDL call's messages extend the table-structure call's.
C9_WellFormedConversations ==
    /\ \A i \in 1..Len(calls) : WellFormedConversation(calls[i].messages)
    /\ Len(calls) >= 2 =>
          /\ IsPrefix(calls[1].messages, calls[2].messages)
          /\ Len(calls[2].messages) > Len(calls[1].messages)

\* The DDL call was made, with the six messages of the main conversation.
C9_Witness ==
    /\ Len(calls) >= 2
    /\ Len(calls[2].messages) = 6
    /\ calls[2].messages[5].role = "assistant"

\* ---------------------------------------------------------------------
\* C10
\* ---------------------------------------------------------------------

\* C10: with a save location that is supplied but does not exist, the
\* invocation ends with the error 'Markdown save location ... does not
\* exist!', returns nothing, writes no file, and has no call outstanding.
C10_MissingLocationError ==
    (Done /\ LocationSupplied /\ markdownSaveLocation \notin ExistingPaths)
        => /\ outcome = "threw"
           /\ thrown = "Markdown save location does not exist!"
           /\ files = <<>>
           /\ \A i \in 1..Len(calls) : SettledCall(calls[i])

====
